---- MODULE Spec2Model ----
(***************************************************************************)
(* A model of zipline/utils/calendars/exchange_calendar.py: the schedule   *)
(* construction of ExchangeCalendar.__init__, the special-date overlay,    *)
(* the minute-grid expansion all_trading_minutes, the session navigation   *)
(* wrappers and the module-level calendar registry.                        *)
(*                                                                         *)
(* Time.  An instant is an integer number of minutes since the epoch       *)
(* 1970-01-01 00:00 UTC (a Thursday); every configured wall-clock time is  *)
(* a whole minute.  A calendar day is scaled down to MinutesPerDay         *)
(* minutes, so the midnight of day d is the instant d * MinutesPerDay.     *)
(* A timezone is its (constant) UTC offset in minutes.                     *)
(***************************************************************************)
EXTENDS Integers, Sequences, FiniteSets, TLC

\* ------------------------------------------------------------- bounds
MinutesPerDay == 4
\* Calendar days 1..MaxDay are the horizon of the model.
MaxDay == 5
\* The number of calendar instances a run may allocate.
MaxInstances == 2
\* The number of concurrent callers of all_trading_minutes.
MaxCallers == 2

\* ------------------------------------------------------------- constants
\* One minute, the step of the minute grid (NANOS_IN_MINUTE, in model units).
NANOS_IN_MINUTE == 1

None == "None"

\* ------------------------------------------------------------- helpers
RECURSIVE SortedSeq(_)
\* The elements of a finite set of integers, in increasing order (a sorted,
\* de-duplicated DatetimeIndex).
SortedSeq(S) ==
    IF S = {} THEN <<>>
    ELSE LET m == CHOOSE i \in S : \A j \in S : j <= i
         IN  Append(SortedSeq(S \ {m}), m)

Range(s) == {s[i] : i \in 1..Len(s)}

Midnight(d) == d * MinutesPerDay

\* DatetimeIndex.normalize(): the midnight of the UTC day holding instant i.
normalize(i) == (i \div MinutesPerDay) * MinutesPerDay

\* Monday = 0 .. Sunday = 6; day 0 is a Thursday.
Weekday(d) == (d + 3) % 7

\* CustomBusinessDay(holidays=holidays_adhoc, calendar=holidays_calendar):
\* Monday to Friday, less both sources of holidays.
IsBusinessDay(self, d) ==
    /\ Weekday(d) \notin {5, 6}
    /\ d \notin self.holidays_adhoc
    /\ d \notin self.holidays_calendar

\* date_range(start, end, freq=self.day, tz='UTC') for a start at midnight:
\* the midnights of the business days in [start, end], in order.
date_range(self, start, end) ==
    SortedSeq({Midnight(d) : d \in {x \in 0..(MaxDay + 1) :
                    /\ start <= Midnight(x)
                    /\ Midnight(x) <= end
                    /\ IsBusinessDay(self, x)}})

\* days_at_time for one day: drop the zone, read the date in tz, add
\* day_offset days, set the wall-clock time t, convert to UTC.
day_at_time(midnight, t, tz, day_offset) ==
    normalize(midnight) + day_offset * MinutesPerDay + t - tz

\* days_at_time(days, t, tz, day_offset) on an index of days.
days_at_time(days, t, tz, day_offset) ==
    [i \in 1..Len(days) |-> day_at_time(days[i], t, tz, day_offset)]

\* holidays_at_time(calendar, start, end, time, tz): the calendar's holidays
\* between the dates of start and end, each at the given time.
holidays_at_time(calendar, start, end, time, tz) ==
    {day_at_time(Midnight(d), time, tz, 0) :
        d \in {x \in calendar : /\ normalize(start) <= Midnight(x)
                                /\ Midnight(x) <= end}}

\* ExchangeCalendar._special_dates: the union of the (time, calendar) pairs
\* and the (time, dates) pairs, restricted to [start_date, end_date]; sorted.
special_dates(calendars, ad_hoc_dates, tz, start_date, end_date) ==
    LET dates ==
            UNION ({holidays_at_time(p[2], start_date, end_date, p[1], tz) :
                        p \in calendars}
                   \cup {{day_at_time(Midnight(d), p[1], tz, 0) : d \in p[2]} :
                        p \in ad_hoc_dates})
    IN  SortedSeq({i \in dates : start_date <= i /\ i <= end_date})

special_opens(self, start, end) ==
    special_dates(self.special_opens_calendars, self.special_opens_adhoc,
                  self.tz, start, end)

special_closes(self, start, end) ==
    special_dates(self.special_closes_calendars, self.special_closes_adhoc,
                  self.tz, start, end)

\* Index.get_indexer for one key: its 0-based position, or -1.
get_indexer(index, key) ==
    IF key \in Range(index)
    THEN (CHOOSE p \in 1..Len(index) : index[p] = key) - 1
    ELSE -1

\* An overlay that makes its checks and writes nothing.
overwrite_nothing(midnight_utcs, opens_or_closes, special) ==
    IF Len(special) = 0
    THEN {[err |-> None, values |-> opens_or_closes]}
    ELSE IF Len(midnight_utcs) # Len(opens_or_closes)
    THEN {[err |-> "TypeError", values |-> <<>>]}
    ELSE IF \E k \in 1..Len(special) :
                get_indexer(midnight_utcs, normalize(special[k])) = -1
    THEN {[err |-> "ValueError", values |-> <<>>]}
    ELSE {[err |-> None, values |-> opens_or_closes]}

\* An overlay that drops the special instants no session is aligned with
\* and writes the first of the others.
overwrite_skipping_unaligned(midnight_utcs, opens_or_closes, special) ==
    IF Len(special) = 0
    THEN {[err |-> None, values |-> opens_or_closes]}
    ELSE IF Len(midnight_utcs) # Len(opens_or_closes)
    THEN {[err |-> "TypeError", values |-> <<>>]}
    ELSE {[err |-> None,
           values |->
             [p \in 1..Len(opens_or_closes) |->
                LET here == {k \in 1..Len(special) :
                               normalize(special[k]) = midnight_utcs[p]}
                IN  IF here = {} THEN opens_or_closes[p]
                    ELSE special[CHOOSE k \in here :
                                    \A j \in here : k <= j]]]}

\* An overlay that writes the k-th special instant to the k-th row.
overwrite_by_position(midnight_utcs, opens_or_closes, special) ==
    IF Len(special) = 0
    THEN {[err |-> None, values |-> opens_or_closes]}
    ELSE IF Len(midnight_utcs) # Len(opens_or_closes)
    THEN {[err |-> "TypeError", values |-> <<>>]}
    ELSE IF \E k \in 1..Len(special) :
                get_indexer(midnight_utcs, normalize(special[k])) = -1
    THEN {[err |-> "ValueError", values |-> <<>>]}
    ELSE {[err |-> None,
           values |-> [p \in 1..Len(opens_or_closes) |->
                          IF p <= Len(special) THEN special[p]
                          ELSE opens_or_closes[p]]]}

\* _overwrite_special_dates(midnight_utcs, opens_or_closes, special): the set
\* of outcomes [err, values].  The fancy-index assignment
\* values[indexer] = special.values gives no order guarantee when an index
\* repeats, so a row with several aligned special instants may end up with
\* any one of them.
overwrite_special_dates(midnight_utcs, opens_or_closes, special) ==
    LET indexer == [k \in 1..Len(special) |->
                        get_indexer(midnight_utcs, normalize(special[k]))]
        Aligned(p) == {special[k] : k \in {j \in 1..Len(special) :
                                                indexer[j] = p - 1}}
        Choice(p) == IF Aligned(p) = {} THEN {opens_or_closes[p]}
                     ELSE Aligned(p)
        n == Len(opens_or_closes)
    IN  IF Len(special) = 0
        THEN {[err |-> None, values |-> opens_or_closes]}
        ELSE IF Len(midnight_utcs) # Len(opens_or_closes)
        THEN {[err |-> "TypeError", values |-> <<>>]}
        ELSE IF \E k \in 1..Len(special) : indexer[k] = -1
        THEN {[err |-> "ValueError", values |-> <<>>]}
        ELSE {[err |-> None, values |-> v] :
                v \in {f \in [1..n -> UNION {Choice(p) : p \in 1..n}] :
                            \A p \in 1..n : f[p] \in Choice(p)}}

\* ExchangeCalendar.session_date, as the sessions of this model label their
\* instants: the UTC date of the instant.
session_date(dt) == normalize(dt)

\* The value standing for "no instance" where a calendar is expected.
NoCalendar ==
    [name |-> "", opens |-> <<>>, closes |-> <<>>,
     schedule |-> [index |-> <<>>, market_open |-> <<>>, market_close |-> <<>>],
     first_trading_day |-> 0, last_trading_day |-> 0, early_closes |-> <<>>]

\* ExchangeCalendar.__init__(start, end) for a subclass that declares self: the
\* set of outcomes [err, cal].  cal holds the attributes of the new instance.
init_calendar(self, start, end) ==
    LET all_days == date_range(self, start, end)
        opens0 == days_at_time(all_days, self.open_time, self.tz,
                               self.open_offset)
        closes0 == days_at_time(all_days, self.close_time, self.tz,
                                self.close_offset)
        sp_opens == special_opens(self, start, end)
        sp_closes == special_closes(self, start, end)
        Failed(e) == [err |-> e, cal |-> NoCalendar]
    IN  UNION {
          IF o.err # None THEN {Failed(o.err)}
          ELSE UNION {
            IF c.err # None THEN {Failed(c.err)}
            ELSE IF Len(all_days) = 0 THEN {Failed("IndexError")}
            ELSE {[err |-> None,
                   cal |-> [name |-> self.name,
                            opens |-> o.values,
                            closes |-> c.values,
                            schedule |-> [index |-> all_days,
                                          market_open |-> o.values,
                                          market_close |-> c.values],
                            first_trading_day |-> all_days[1],
                            last_trading_day |-> all_days[Len(all_days)],
                            early_closes |->
                                [k \in 1..Len(sp_closes) |->
                                    session_date(sp_closes[k])]]]}
            : c \in overwrite_special_dates(all_days, closes0, sp_closes)}
          : o \in overwrite_special_dates(all_days, opens0, sp_opens)}

\* ------------------------------------------------------------- minute grid
\* slice.indices for a[start:stop] on an array of length n: a negative bound
\* counts from the end, and both are clamped to [0, n].
slice_bound(x, n) ==
    IF x < 0 THEN (IF x + n < 0 THEN 0 ELSE x + n)
    ELSE (IF x > n THEN n ELSE x)

\* np.arange(first, stop, step) for a positive step.
arange(first, stop, step) ==
    IF stop <= first THEN <<>>
    ELSE [k \in 1..(((stop - first) + step - 1) \div step) |->
            first + (k - 1) * step]

\* The content of a slot of np.empty that nothing was written to (no instant
\* of the model).
Uninitialized == -999999

RECURSIVE fill_minutes(_, _, _, _, _, _)
\* The loop of all_trading_minutes from session day_idx on: the block of each
\* session is assigned to all_minutes[idx:(idx + size)].  An assignment of a
\* block whose length is neither the slice's nor 1 raises ValueError.
fill_minutes(opens_in_ns, closes_in_ns, daily_sizes, day_idx, idx, all_minutes) ==
    IF day_idx > Len(daily_sizes)
    THEN [err |-> None, value |-> all_minutes]
    ELSE
      LET size == daily_sizes[day_idx]
          n == Len(all_minutes)
          lo == slice_bound(idx, n)
          hi == slice_bound(idx + size, n)
          slots == IF hi > lo THEN hi - lo ELSE 0
          block == arange(opens_in_ns[day_idx],
                          closes_in_ns[day_idx] + NANOS_IN_MINUTE,
                          NANOS_IN_MINUTE)
      IN  IF Len(block) # slots /\ Len(block) # 1
          THEN [err |-> "ValueError", value |-> <<>>]
          ELSE fill_minutes(opens_in_ns, closes_in_ns, daily_sizes,
                  day_idx + 1, idx + size,
                  [p \in 1..n |->
                     IF lo < p /\ p <= lo + slots
                     THEN (IF Len(block) = 1 THEN block[1] ELSE block[p - lo])
                     ELSE all_minutes[p]])

RECURSIVE SeqSum(_)
SeqSum(s) == IF Len(s) = 0 THEN 0 ELSE Head(s) + SeqSum(Tail(s))

\* The sizes without the + 1.
daily_sizes_without_close(opens_in_ns, closes_in_ns) ==
    [k \in 1..Len(opens_in_ns) |->
        (closes_in_ns[k] - opens_in_ns[k]) \div NANOS_IN_MINUTE]

\* + 1 because a session holds its open and its close minute.
daily_sizes_of(opens_in_ns, closes_in_ns) ==
    [k \in 1..Len(opens_in_ns) |->
        ((closes_in_ns[k] - opens_in_ns[k]) \div NANOS_IN_MINUTE) + 1]

\* ExchangeCalendar.all_trading_minutes (the computation behind the memo):
\* [err, value].  np.empty of a negative length raises ValueError.
all_trading_minutes(c) ==
    LET daily_sizes == daily_sizes_of(c.opens, c.closes)
        num_minutes == SeqSum(daily_sizes)
    IN  IF num_minutes < 0 THEN [err |-> "ValueError", value |-> <<>>]
        ELSE fill_minutes(c.opens, c.closes, daily_sizes, 1, 0,
                          [p \in 1..num_minutes |-> Uninitialized])

\* ------------------------------------------------------------- navigation
\* ExchangeCalendar.all_trading_days
all_trading_days(c) == c.schedule.index

\* ExchangeCalendar.is_open_on_day (abstract here): the calendar day of dt is
\* a session day.
is_open_on_day(c, dt) == normalize(dt) \in Range(all_trading_days(c))

\* calendar_helpers.next_scheduled_day: the first day after date, up to the
\* last trading day, that the hook accepts.
next_scheduled_day(c, date, last_trading_day) ==
    LET later == {Midnight(d) : d \in {x \in 0..(MaxDay + 1) :
                    /\ normalize(date) < Midnight(x)
                    /\ Midnight(x) <= last_trading_day
                    /\ is_open_on_day(c, Midnight(x))}}
    IN  IF later = {} THEN [err |-> "OutOfRange", value |-> 0]
        ELSE [err |-> None,
              value |-> CHOOSE m \in later : \A y \in later : m <= y]

\* calendar_helpers.previous_scheduled_day: the last day before date, down to
\* the first trading day, that the hook accepts.
previous_scheduled_day(c, date, first_trading_day) ==
    LET earlier == {Midnight(d) : d \in {x \in 0..(MaxDay + 1) :
                    /\ Midnight(x) < normalize(date)
                    /\ first_trading_day <= Midnight(x)
                    /\ is_open_on_day(c, Midnight(x))}}
    IN  IF earlier = {} THEN [err |-> "OutOfRange", value |-> 0]
        ELSE [err |-> None,
              value |-> CHOOSE m \in earlier : \A y \in earlier : y <= m]

\* A next_trading_day that steps a calendar day and snaps to no session.
next_calendar_day(c, date) ==
    IF normalize(date) + MinutesPerDay <= c.last_trading_day
    THEN [err |-> None, value |-> normalize(date) + MinutesPerDay]
    ELSE [err |-> "OutOfRange", value |-> 0]

\* ExchangeCalendar.next_trading_day
next_trading_day(c, date) ==
    next_scheduled_day(c, date, c.last_trading_day)

\* ExchangeCalendar.previous_trading_day
previous_trading_day(c, date) ==
    previous_scheduled_day(c, date, c.first_trading_day)

\* ------------------------------------------------------------- state
VARIABLES
    \* one calendar class and one instance of it
    cfg,            \* the configuration the class declares
    built,          \* the constructor call: [start, end, err, cal]
    minutes,        \* the memo of all_trading_minutes: [state, err, value]
    nav,            \* the last navigation call: [op, arg, err, value, origin]
    \* the registry
    static_calendars,   \* _static_calendars: name -> instance
    heap,               \* the instances constructed so far; an instance is
                        \* its index
    call,               \* the last registry call: [op, name, force, start,
                        \* end, err, ret, old]; ret is the instance passed
                        \* or returned, old the one the name mapped to before
    \* the concurrent callers of all_trading_minutes on the one instance
    pc,             \* caller -> "idle", "called", "check", "compute", "done"
    guard,          \* the caller that holds the guard of the memo, or 0
    got             \* caller -> its read: [early, computed, err, value]

vars ==
    <<cfg, built, minutes, nav, static_calendars, heap, call, pc, guard, got>>

calendar_vars == <<cfg, built, minutes, nav>>
registry_vars == <<static_calendars, heap, call>>
caller_vars == <<pc, guard, got>>

\* ------------------------------------------------------------- inputs
Times == 0..(MinutesPerDay - 1)

\* UTC offsets of the timezones of the model: west of, at and east of UTC.
TimeZones == {-1, 0, 1}

\* <<open_offset, close_offset>>
Offsets == {<<0, 0>>, <<-1, 0>>, <<0, 1>>}

\* <<holidays_adhoc, holidays_calendar>>: none; an ad-hoc holiday on Monday
\* (day 4); a rule-based holiday on Tuesday (day 5).
Holidays == {<<{}, {}>>, <<{4}, {}>>, <<{}, {5}>>}

\* <<(time, calendar) pairs, (time, dates) pairs>> of special opens or closes:
\* none; one ad-hoc instant on Monday; two ad-hoc instants on Monday and one
\* on Tuesday; a rule on Friday (day 1) and Tuesday (day 5); an ad-hoc list
\* holding a Saturday (day 2).
SpecialDates ==
    {<<{}, {}>>,
     <<{}, {<<2, {4}>>}>>,
     <<{}, {<<0, {4}>>, <<2, {4, 5}>>}>>,
     <<{<<1, {1, 5}>>}, {}>>,
     <<{}, {<<1, {2, 5}>>}>>}

start_default == Midnight(1)
\* "today" plus a year: the last day of the horizon, at some time of day.
end_default == Midnight(MaxDay) + (MinutesPerDay - 1)

\* The <<start, end>> a constructor is called with: the defaults; a start on
\* a Saturday; an end at the midnight of the day before the last; a weekend.
Ranges ==
    {<<start_default, end_default>>,
     <<Midnight(2), end_default>>,
     <<start_default, Midnight(MaxDay - 1)>>,
     <<Midnight(2), Midnight(3)>>}

\* <<special opens, special closes>> of one class: opens only, closes only,
\* or the same dates for both.
SpecialPairs ==
    {p \in SpecialDates \X SpecialDates :
        p[1] = <<{}, {}>> \/ p[2] = <<{}, {}>> \/ p[1] = p[2]}

CalendarConfigs ==
    {[name |-> "XYZ", tz |-> z, open_time |-> o, close_time |-> c,
      open_offset |-> off[1], close_offset |-> off[2],
      holidays_adhoc |-> h[1], holidays_calendar |-> h[2],
      special_opens_calendars |-> sp[1][1],
      special_opens_adhoc |-> sp[1][2],
      special_closes_calendars |-> sp[2][1],
      special_closes_adhoc |-> sp[2][2]] :
        z \in TimeZones, o \in Times, c \in Times, off \in Offsets,
        h \in Holidays, sp \in SpecialPairs}

NotConstructed == [start |-> 0, end |-> 0, err |-> "NotConstructed",
                   cal |-> NoCalendar]
NoMinutes == [state |-> "empty", err |-> None, value |-> <<>>]
NoNav == [op |-> None, arg |-> 0, err |-> None, value |-> 0, origin |-> -1]
NoCall == [op |-> None, name |-> "", force |-> FALSE, start |-> <<>>,
           end |-> <<>>, err |-> None, ret |-> 0, old |-> 0]
EmptyRegistry == [n \in {} |-> 0]
Callers == 1..MaxCallers
NoRead == [early |-> FALSE, computed |-> FALSE, err |-> None, value |-> <<>>]

\* ------------------------------------------------------------- one calendar
InitCalendar ==
    /\ cfg \in CalendarConfigs
    /\ built = NotConstructed
    /\ minutes = NoMinutes
    /\ nav = NoNav
    /\ static_calendars = EmptyRegistry
    /\ heap = <<>>
    /\ call = NoCall
    /\ pc = [t \in Callers |-> "idle"]
    /\ guard = 0
    /\ got = [t \in Callers |-> NoRead]

\* cal = SomeExchangeCalendar(start, end): the one instance a behaviour of
\* SpecCalendar follows.
Construct(start, end) ==
    /\ built.err = "NotConstructed"
    /\ \E out \in init_calendar(cfg, start, end) :
          built' = [start |-> start, end |-> end, err |-> out.err,
                    cal |-> out.cal]
    /\ UNCHANGED <<cfg, minutes, nav>>
    /\ UNCHANGED registry_vars
    /\ UNCHANGED caller_vars

\* cal.all_trading_minutes: computed on the first read, then remembered.
\* The property and the navigation calls read the instance and write nothing
\* the other reads, so each is followed from an instance the other has not
\* been called on.
AllTradingMinutes ==
    /\ built.err = None
    /\ nav = NoNav
    /\ minutes' = IF minutes.state = "empty"
                  THEN LET r == all_trading_minutes(built.cal)
                       IN  IF r.err = None
                           THEN [state |-> "memo", err |-> None,
                                 value |-> r.value]
                           ELSE [state |-> "empty", err |-> r.err,
                                 value |-> <<>>]
                  ELSE minutes
    /\ UNCHANGED <<cfg, built, nav>>
    /\ UNCHANGED registry_vars
    /\ UNCHANGED caller_vars

Dates == {Midnight(d) : d \in 1..MaxDay}

\* cal.previous_trading_day(date)
PreviousTradingDay(date) ==
    /\ built.err = None
    /\ minutes = NoMinutes
    /\ LET r == previous_trading_day(built.cal, date)
       IN  nav' = [op |-> "previous_trading_day", arg |-> date,
                   err |-> r.err, value |-> r.value, origin |-> -1]
    /\ UNCHANGED <<cfg, built, minutes>>
    /\ UNCHANGED registry_vars
    /\ UNCHANGED caller_vars

\* cal.next_trading_day(date); origin is d when date is the result of the
\* call previous_trading_day(d) just before.
NextTradingDay(date) ==
    /\ built.err = None
    /\ minutes = NoMinutes
    /\ LET r == next_trading_day(built.cal, date)
       IN  nav' = [op |-> "next_trading_day", arg |-> date,
                   err |-> r.err, value |-> r.value,
                   origin |-> IF /\ nav.op = "previous_trading_day"
                                 /\ nav.err = None
                                 /\ nav.value = date
                              THEN nav.arg ELSE -1]
    /\ UNCHANGED <<cfg, built, minutes>>
    /\ UNCHANGED registry_vars
    /\ UNCHANGED caller_vars

NextCalendar ==
    \/ \E r \in Ranges : Construct(r[1], r[2])
    \/ AllTradingMinutes
    \/ \E date \in Dates : PreviousTradingDay(date)
    \/ \E date \in Dates : NextTradingDay(date)

SpecCalendar == InitCalendar /\ [][NextCalendar]_vars

\* ------------------------------------------------------------- concurrent
\* callers of all_trading_minutes on one instance

\* The classes the callers' instance is of: every open and close time, in
\* UTC, with no holidays and no special dates.
CallerConfigs ==
    {c \in CalendarConfigs :
        /\ c.tz = 0
        /\ c.open_offset = 0 /\ c.close_offset = 0
        /\ c.holidays_adhoc = {} /\ c.holidays_calendar = {}
        /\ c.special_opens_calendars = {} /\ c.special_opens_adhoc = {}
        /\ c.special_closes_calendars = {} /\ c.special_closes_adhoc = {}}

InitCallers ==
    /\ cfg \in CallerConfigs
    /\ built = NotConstructed
    /\ minutes = NoMinutes
    /\ nav = NoNav
    /\ static_calendars = EmptyRegistry
    /\ heap = <<>>
    /\ call = NoCall
    /\ pc = [t \in Callers |-> "idle"]
    /\ guard = 0
    /\ got = [t \in Callers |-> NoRead]

\* A guard that lets every caller in.
guard_open_to_all(g) == TRUE

\* The guard of the memoization (remember_last): it is free.
guard_free(g) == g = 0

\* Caller t reads cal.all_trading_minutes; early: no value is remembered yet.
CallAllTradingMinutes(t) ==
    /\ built.err = None
    /\ pc[t] = "idle"
    /\ pc' = [pc EXCEPT ![t] = "called"]
    /\ got' = [got EXCEPT ![t].early = (minutes.state = "empty")]
    /\ UNCHANGED <<guard, calendar_vars>>
    /\ UNCHANGED registry_vars

\* remember_last lets caller t in once the guard is free.
AcquireGuard(t) ==
    /\ pc[t] = "called"
    /\ guard_free(guard)
    /\ guard' = t
    /\ pc' = [pc EXCEPT ![t] = "check"]
    /\ UNCHANGED <<got, calendar_vars>>
    /\ UNCHANGED registry_vars

\* remember_last, inside the guard: a remembered value is returned; without
\* one the body of all_trading_minutes is entered.
CheckMemo(t) ==
    /\ pc[t] = "check"
    /\ IF minutes.state = "memo"
       THEN /\ got' = [got EXCEPT ![t].value = minutes.value]
            /\ pc' = [pc EXCEPT ![t] = "done"]
            /\ guard' = 0
       ELSE /\ pc' = [pc EXCEPT ![t] = "compute"]
            /\ UNCHANGED <<got, guard>>
    /\ UNCHANGED calendar_vars
    /\ UNCHANGED registry_vars

\* The body of all_trading_minutes for caller t: its value is remembered and
\* returned; an exception leaves nothing remembered.  The guard is released.
ComputeMinutes(t) ==
    /\ pc[t] = "compute"
    /\ LET r == all_trading_minutes(built.cal)
       IN  /\ minutes' = IF r.err = None
                         THEN [state |-> "memo", err |-> None,
                               value |-> r.value]
                         ELSE minutes
           /\ got' = [got EXCEPT ![t].computed = TRUE, ![t].err = r.err,
                                 ![t].value = r.value]
    /\ pc' = [pc EXCEPT ![t] = "done"]
    /\ guard' = 0
    /\ UNCHANGED <<cfg, built, nav>>
    /\ UNCHANGED registry_vars

NextCallers ==
    \/ \E r \in Ranges : Construct(r[1], r[2])
    \/ \E t \in Callers : CallAllTradingMinutes(t)
    \/ \E t \in Callers : AcquireGuard(t)
    \/ \E t \in Callers : CheckMemo(t)
    \/ \E t \in Callers : ComputeMinutes(t)

SpecCallers == InitCallers /\ [][NextCallers]_vars

\* ------------------------------------------------------------- registry
\* The configuration a class declares, by the name it declares.
ClassConfig(name, tz, open_time, close_time, open_offset, holidays_adhoc, special_opens_adhoc, special_closes_calendars, special_closes_adhoc) ==
    [name |-> name, tz |-> tz, open_time |-> open_time,
     close_time |-> close_time, open_offset |-> open_offset,
     close_offset |-> 0, holidays_adhoc |-> holidays_adhoc,
     holidays_calendar |-> {}, special_opens_calendars |-> {},
     special_opens_adhoc |-> special_opens_adhoc,
     special_closes_calendars |-> special_closes_calendars,
     special_closes_adhoc |-> special_closes_adhoc]

\* The exchange classes get_calendar imports, and one class of the caller's
\* (XYZ).  NYSE closes early on Friday; the sessions of CME open the evening
\* before; BMF has a holiday on Monday; LSE lists a special close on a
\* Saturday and TSX a special open on a Sunday, which no range holding that
\* day can be built with.
ExchangeConfig(name) ==
    CASE name = "NYSE" -> ClassConfig("NYSE", -1, 1, 3, 0, {}, {},
                                      {<<2, {1}>>}, {})
      [] name = "CME"  -> ClassConfig("CME", -1, 3, 2, -1, {}, {}, {}, {})
      [] name = "BMF"  -> ClassConfig("BMF", 0, 1, 3, 0, {4}, {}, {}, {})
      [] name = "LSE"  -> ClassConfig("LSE", 0, 0, 2, 0, {}, {}, {},
                                      {<<1, {2}>>})
      [] name = "TSX"  -> ClassConfig("TSX", -1, 1, 3, 0, {}, {<<2, {3}>>},
                                      {}, {})
      [] OTHER         -> ClassConfig(name, 1, 1, 2, 0, {}, {}, {}, {})

CustomNames == {"XYZ"}
Names == {"NYSE", "CME", "BMF", "LSE", "TSX"} \cup CustomNames

\* The optional start and end of a call: <<>> is None.
OptionalRanges ==
    {<<<<>>, <<>>>>, <<<<Midnight(4)>>, <<>>>>, <<<<>>, <<Midnight(MaxDay)>>>>}

\* kwargs of get_calendar: an argument that is None leaves the default.
kwarg(value, default) == IF value = <<>> THEN default ELSE value[1]

\* SomeExchangeCalendar(**kwargs) for the class that declares name: the
\* outcomes of its constructor.
ConstructorOutcomes ==
    UNION {{<<name, r[1], r[2], out>> :
                out \in init_calendar(ExchangeConfig(name),
                                      kwarg(r[1], start_default),
                                      kwarg(r[2], end_default))} :
            name \in Names, r \in OptionalRanges}

construct(name, start, end) ==
    {t[4] : t \in {u \in ConstructorOutcomes :
                        u[1] = name /\ u[2] = start /\ u[3] = end}}

\* A deregister_calendar that removes nothing.
deregister_nothing(reg, cal_name) == reg

\* deregister_calendar(cal_name) on the registry reg
deregister_calendar(reg, cal_name) ==
    [n \in DOMAIN reg \ {cal_name} |-> reg[n]]

\* A register_calendar without the collision test.
register_unchecked(reg, h, id, force) ==
    [err |-> None,
     reg |-> [n \in DOMAIN reg \cup {h[id].name} |->
                 IF n = h[id].name THEN id ELSE reg[n]]]

\* register_calendar(calendar, force) on the registry reg, the calendar being
\* instance id of the heap h: [err, reg].
register_calendar(reg, h, id, force) ==
    LET name == h[id].name
        reg1 == IF force THEN deregister_calendar(reg, name) ELSE reg
    IN  IF name \in DOMAIN reg1
        THEN [err |-> "CalendarNameCollision", reg |-> reg1]
        ELSE [err |-> None,
              reg |-> [n \in DOMAIN reg1 \cup {name} |->
                          IF n = name THEN id ELSE reg1[n]]]

\* A get_calendar that takes every name for an exchange it can build.
is_any_name(name) == TRUE

\* The names get_calendar builds a calendar for.
is_lazy_calendar(name) == name \in {"NYSE", "CME", "BMF", "LSE", "TSX"}

\* A first test that honours the registry only when no range is asked for.
is_registered_for_defaults(reg, name, start, end) ==
    name \in DOMAIN reg /\ start = <<>> /\ end = <<>>

\* The first test of get_calendar: the name is registered.
is_registered(reg, name, start, end) == name \in DOMAIN reg

InitRegistry ==
    /\ cfg = ExchangeConfig("XYZ")
    /\ built = NotConstructed
    /\ minutes = NoMinutes
    /\ nav = NoNav
    /\ static_calendars = EmptyRegistry
    /\ heap = <<>>
    /\ call = NoCall
    /\ pc = [t \in Callers |-> "idle"]
    /\ guard = 0
    /\ got = [t \in Callers |-> NoRead]

Called(op, name, force, start, end, err, ret, old) ==
    [op |-> op, name |-> name, force |-> force, start |-> start, end |-> end,
     err |-> err, ret |-> ret, old |-> old]

Mapped(reg, name) == IF name \in DOMAIN reg THEN reg[name] ELSE 0

\* SomeExchangeCalendar(start, end), called by the user for the class that
\* declares name.
NewCalendar(name, start, end) ==
    /\ \E out \in construct(name, start, end) :
          IF out.err = None
          THEN /\ Len(heap) < MaxInstances
               /\ heap' = Append(heap, out.cal)
               /\ call' = Called("construct", name, FALSE, start, end, None,
                                 Len(heap) + 1, Mapped(static_calendars, name))
          ELSE /\ heap' = heap
               /\ call' = Called("construct", name, FALSE, start, end,
                                 out.err, 0, Mapped(static_calendars, name))
    /\ UNCHANGED static_calendars
    /\ UNCHANGED calendar_vars
    /\ UNCHANGED caller_vars

\* register_calendar(calendar, force) for an instance the caller holds
RegisterCalendar(id, force) ==
    /\ id \in 1..Len(heap)
    /\ LET r == register_calendar(static_calendars, heap, id, force)
       IN  /\ static_calendars' = r.reg
           /\ call' = Called("register_calendar", heap[id].name, force, <<>>,
                             <<>>, r.err, id,
                             Mapped(static_calendars, heap[id].name))
    /\ UNCHANGED heap
    /\ UNCHANGED calendar_vars
    /\ UNCHANGED caller_vars

\* deregister_calendar(cal_name)
DeregisterCalendar(cal_name) ==
    /\ static_calendars' = deregister_calendar(static_calendars, cal_name)
    /\ call' = Called("deregister_calendar", cal_name, FALSE, <<>>, <<>>,
                      None, 0, Mapped(static_calendars, cal_name))
    /\ UNCHANGED heap
    /\ UNCHANGED calendar_vars
    /\ UNCHANGED caller_vars

\* clear_calendars()
ClearCalendars ==
    /\ static_calendars' = EmptyRegistry
    /\ call' = Called("clear_calendars", "", FALSE, <<>>, <<>>, None, 0, 0)
    /\ UNCHANGED heap
    /\ UNCHANGED calendar_vars
    /\ UNCHANGED caller_vars

\* get_calendar(name, start, end)
GetCalendar(name, start, end) ==
    LET old == Mapped(static_calendars, name)
    IN
    /\ IF is_registered(static_calendars, name, start, end)
       THEN /\ call' = Called("get_calendar", name, FALSE, start, end, None,
                              static_calendars[name], old)
            /\ UNCHANGED <<static_calendars, heap>>
       ELSE IF is_lazy_calendar(name)
       THEN \E out \in construct(name, start, end) :
              IF out.err # None
              THEN /\ call' = Called("get_calendar", name, FALSE, start, end,
                                     out.err, 0, old)
                   /\ UNCHANGED <<static_calendars, heap>>
              ELSE /\ Len(heap) < MaxInstances
                   /\ heap' = Append(heap, out.cal)
                   /\ LET r == register_calendar(static_calendars, heap',
                                                 Len(heap'), FALSE)
                      IN  /\ static_calendars' = r.reg
                          /\ call' =
                               Called("get_calendar", name, FALSE, start, end,
                                  IF r.err # None THEN r.err
                                  ELSE IF name \notin DOMAIN r.reg
                                  THEN "KeyError" ELSE None,
                                  IF r.err = None /\ name \in DOMAIN r.reg
                                  THEN r.reg[name] ELSE 0,
                                  old)
       ELSE /\ call' = Called("get_calendar", name, FALSE, start, end,
                              "InvalidCalendarName", 0, old)
            /\ UNCHANGED <<static_calendars, heap>>
    /\ UNCHANGED calendar_vars
    /\ UNCHANGED caller_vars

Next ==
    \/ \E name \in Names, r \in OptionalRanges : NewCalendar(name, r[1], r[2])
    \/ \E id \in 1..MaxInstances, force \in BOOLEAN :
          RegisterCalendar(id, force)
    \/ \E name \in Names : DeregisterCalendar(name)
    \/ ClearCalendars
    \/ \E name \in Names, r \in OptionalRanges : GetCalendar(name, r[1], r[2])

Spec == InitRegistry /\ [][Next]_vars

\* ------------------------------------------------------------- properties
\* of one calendar (SpecCalendar)

Constructed == built.err = None
Schedule == built.cal.schedule
Sessions == 1..Len(Schedule.index)

\* The in-range special instants of the constructor call, as sets.
SpecialOpenInstants == Range(special_opens(cfg, built.start, built.end))
SpecialCloseInstants == Range(special_closes(cfg, built.start, built.end))

\* The special instants whose UTC date is the date of session p.
AlignedTo(instants, p) == {i \in instants : normalize(i) = Schedule.index[p]}

\* The nominal open and close of session p.
NominalOpen(p) ==
    day_at_time(Schedule.index[p], cfg.open_time, cfg.tz, cfg.open_offset)
NominalClose(p) ==
    day_at_time(Schedule.index[p], cfg.close_time, cfg.tz, cfg.close_offset)

\* C5: in every session table that construction produces, market_open is
\* before market_close in every row.
C5_OpenBeforeClose ==
    Constructed =>
        \A p \in Sessions : Schedule.market_open[p] < Schedule.market_close[p]

\* C6 (as stated): after a successful construction every in-range special
\* open (close) instant is the market_open (market_close) of the session whose
\* date is the instant's UTC date, also when several align to one session.
C6_EverySpecialInstantAppears ==
    Constructed =>
        /\ \A i \in SpecialOpenInstants : \E p \in Sessions :
              /\ Schedule.index[p] = normalize(i)
              /\ Schedule.market_open[p] = i
        /\ \A i \in SpecialCloseInstants : \E p \in Sessions :
              /\ Schedule.index[p] = normalize(i)
              /\ Schedule.market_close[p] = i

\* C6 (amended): after a successful construction every in-range special open
\* (close) instant has an aligned session, and a session with aligned special
\* instants has one of them as its market_open (market_close): an instant that
\* is alone on its session appears exactly, of several on one session only
\* one does.
C6_OneAlignedInstantAppears ==
    Constructed =>
        /\ \A i \in SpecialOpenInstants : \E p \in Sessions :
              Schedule.index[p] = normalize(i)
        /\ \A i \in SpecialCloseInstants : \E p \in Sessions :
              Schedule.index[p] = normalize(i)
        /\ \A p \in Sessions :
              /\ AlignedTo(SpecialOpenInstants, p) # {} =>
                    Schedule.market_open[p] \in AlignedTo(SpecialOpenInstants, p)
              /\ AlignedTo(SpecialCloseInstants, p) # {} =>
                    Schedule.market_close[p]
                        \in AlignedTo(SpecialCloseInstants, p)

\* A construction that succeeded with two special opens on one session and
\* one special open, which moved the open, on another.
C6_Witness ==
    /\ Constructed
    /\ \E p \in Sessions : Cardinality(AlignedTo(SpecialOpenInstants, p)) = 2
    /\ \E p \in Sessions :
          /\ Cardinality(AlignedTo(SpecialOpenInstants, p)) = 1
          /\ Schedule.market_open[p] # NominalOpen(p)

\* The position in all_trading_minutes before the block of session k.
RECURSIVE BlockStart(_)
BlockStart(k) ==
    IF k = 1 THEN 0
    ELSE BlockStart(k - 1)
            + (built.cal.closes[k - 1] - built.cal.opens[k - 1]) + 1

WellFormedSessions ==
    \A k \in Sessions : built.cal.opens[k] <= built.cal.closes[k]

\* all_trading_minutes was read.
MinutesRead == minutes.state = "memo" \/ minutes.err # None

\* The minutes open, open + 1min, ..., close of every session, in session
\* order, and nothing else.
ExactMinutes ==
    /\ minutes.state = "memo"
    /\ Len(minutes.value) = BlockStart(Len(Schedule.index) + 1)
    /\ \A k \in Sessions :
          \A j \in 0..(built.cal.closes[k] - built.cal.opens[k]) :
              minutes.value[BlockStart(k) + j + 1] = built.cal.opens[k] + j

\* Every session opens after the session before it has closed.
DisjointSessions ==
    \A k \in Sessions : k > 1 => built.cal.closes[k - 1] < built.cal.opens[k]

RoundTripMade ==
    /\ Constructed
    /\ nav.op = "next_trading_day"
    /\ nav.origin # -1
    /\ built.cal.first_trading_day < nav.origin
    /\ nav.origin < built.cal.last_trading_day

\* C9 (as stated): next_trading_day(previous_trading_day(d)) = d for any d
\* strictly between the first and the last session.
C9_RoundTripAnyDay ==
    RoundTripMade => (nav.err = None /\ nav.value = nav.origin)

\* C9 (amended): next_trading_day(previous_trading_day(d)) = d for any
\* session day d strictly between the first and the last session.
C9_RoundTripSessionDay ==
    (RoundTripMade /\ nav.origin \in Range(Schedule.index)) =>
        (nav.err = None /\ nav.value = nav.origin)

\* The round trip made from a session day that follows a weekend.
C9_Witness ==
    /\ RoundTripMade
    /\ nav.origin \in Range(Schedule.index)
    /\ nav.origin - nav.arg > MinutesPerDay
    /\ nav.value = nav.origin

\* C10: the overlay neither adds, removes nor reorders rows: the table has one
\* row per business day of the range, its index the strictly increasing
\* business-day sequence; a session with no aligned special open (close)
\* keeps its nominal open (close); with no special instants nothing changes.
C10_OverlayKeepsRows ==
    Constructed =>
        /\ Range(Schedule.index) =
              {Midnight(d) : d \in {x \in 0..(MaxDay + 1) :
                    /\ built.start <= Midnight(x)
                    /\ Midnight(x) <= built.end
                    /\ IsBusinessDay(cfg, x)}}
        /\ \A p \in Sessions : p > 1 => Schedule.index[p - 1] < Schedule.index[p]
        /\ Len(Schedule.market_open) = Len(Schedule.index)
        /\ Len(Schedule.market_close) = Len(Schedule.index)
        /\ \A p \in Sessions :
              /\ AlignedTo(SpecialOpenInstants, p) = {} =>
                    Schedule.market_open[p] = NominalOpen(p)
              /\ AlignedTo(SpecialCloseInstants, p) = {} =>
                    Schedule.market_close[p] = NominalClose(p)

\* A table of three sessions of which one has its open overlaid, one its
\* close, and one neither.
C10_Witness ==
    /\ Constructed
    /\ Len(Schedule.index) >= 3
    /\ \E p \in Sessions : /\ AlignedTo(SpecialOpenInstants, p) # {}
                           /\ Schedule.market_open[p] # NominalOpen(p)
    /\ \E p \in Sessions : /\ AlignedTo(SpecialCloseInstants, p) # {}
                           /\ Schedule.market_close[p] # NominalClose(p)
    /\ \E p \in Sessions : /\ AlignedTo(SpecialOpenInstants, p) = {}
                           /\ AlignedTo(SpecialCloseInstants, p) = {}

\* ------------------------------------------------------------- properties
\* of the registry (Spec)

\* The step is a call of op: every action leaves its call in call.
Calls(op) == call'.op = op

Registered(name) == name \in DOMAIN static_calendars

\* Every entry under a name other than name is the same after the step.
OtherEntriesUnchanged(name) ==
    /\ DOMAIN static_calendars' \ {name} = DOMAIN static_calendars \ {name}
    /\ \A n \in DOMAIN static_calendars \ {name} :
          static_calendars'[n] = static_calendars[n]

\* C1: register_calendar(cal, force=False) with a calendar of cal.name
\* already registered raises CalendarNameCollision and leaves the registry as
\* it was: the same instance under that name, no entry added, removed or
\* replaced.
C1_CollisionLeavesRegistry ==
    [][(/\ Calls("register_calendar")
        /\ ~call'.force
        /\ call'.name = heap[call'.ret].name
        /\ Registered(call'.name)) =>
            /\ call'.err = "CalendarNameCollision"
            /\ static_calendars' = static_calendars
            /\ static_calendars'[call'.name] = call'.old]_vars

\* A collision raised for an instance other than the registered one, which
\* is still the one registered.
C1_Witness ==
    /\ call.op = "register_calendar"
    /\ call.err = "CalendarNameCollision"
    /\ call.old \notin {0, call.ret}
    /\ call.name \in DOMAIN static_calendars
    /\ static_calendars[call.name] = call.old

\* C2: register_calendar(cal, force=True) never raises, and afterwards
\* cal.name maps to cal itself, whatever was registered under that name
\* before, while every entry under another name is as it was.
C2_ForceReplaces ==
    [][(Calls("register_calendar") /\ call'.force) =>
            /\ call'.err = None
            /\ call'.name = heap[call'.ret].name
            /\ call'.name \in DOMAIN static_calendars'
            /\ static_calendars'[call'.name] = call'.ret
            /\ OtherEntriesUnchanged(call'.name)]_vars

\* A forced registration that replaced another instance of the name.
C2_Witness ==
    /\ call.op = "register_calendar"
    /\ call.force
    /\ call.err = None
    /\ call.old \notin {0, call.ret}
    /\ static_calendars[call.name] = call.ret

\* C3: get_calendar(name, start, end) on a registered name returns the
\* registered instance for every start and end, constructs nothing and leaves
\* the registry as it was; on an unregistered known exchange name a call that
\* returns has constructed one instance, registered it under name and
\* returned it; so of two get_calendar calls for one name in a row the
\* second returns the instance of the first.
C3_GetReturnsRegistered ==
    [][/\ (Calls("get_calendar") /\ Registered(call'.name)) =>
            /\ call'.err = None
            /\ call'.ret = static_calendars[call'.name]
            /\ heap' = heap
            /\ static_calendars' = static_calendars
       /\ (Calls("get_calendar") /\ ~Registered(call'.name)
                /\ call'.err = None) =>
            /\ Len(heap') = Len(heap) + 1
            /\ SubSeq(heap', 1, Len(heap)) = heap
            /\ call'.ret = Len(heap')
            /\ heap'[call'.ret].name = call'.name
            /\ call'.name \in DOMAIN static_calendars'
            /\ static_calendars'[call'.name] = call'.ret
            /\ OtherEntriesUnchanged(call'.name)
       /\ (/\ call.op = "get_calendar"
           /\ call.err = None
           /\ Calls("get_calendar")
           /\ call'.name = call.name) =>
            /\ call'.err = None
            /\ call'.ret = call.ret
            /\ heap' = heap
            /\ static_calendars' = static_calendars]_vars

\* A get_calendar with a start that returned the registered instance, built
\* by an earlier call for a range that begins before that start.
C3_Witness ==
    /\ call.op = "get_calendar"
    /\ call.err = None
    /\ call.start # <<>>
    /\ call.old = call.ret
    /\ call.ret \in 1..Len(heap)
    /\ heap[call.ret].first_trading_day < call.start[1]
    /\ Len(heap) = MaxInstances

\* C4: get_calendar on a name that is neither registered nor one of NYSE,
\* CME, BMF, LSE, TSX raises InvalidCalendarName, constructs nothing and
\* leaves the registry as it was, whatever was registered, deregistered or
\* cleared before.
C4_UnknownNameFails ==
    [][(/\ Calls("get_calendar")
        /\ ~Registered(call'.name)
        /\ call'.name \notin {"NYSE", "CME", "BMF", "LSE", "TSX"}) =>
            /\ call'.err = "InvalidCalendarName"
            /\ static_calendars' = static_calendars
            /\ heap' = heap]_vars

\* InvalidCalendarName for a name that an instance on the heap carries (it
\* is registered no more, or never was), in a registry that is not empty.
C4_Witness ==
    /\ call.op = "get_calendar"
    /\ call.err = "InvalidCalendarName"
    /\ \E id \in 1..Len(heap) : heap[id].name = call.name
    /\ call.name \notin DOMAIN static_calendars
    /\ static_calendars # EmptyRegistry

\* The class that declares name has, for the range of the call, a special
\* open or close instant whose UTC date is no business day of the range.
Misaligned(name, start, end) ==
    LET self == ExchangeConfig(name)
        s == kwarg(start, start_default)
        e == kwarg(end, end_default)
    IN  \E i \in Range(special_opens(self, s, e))
                    \cup Range(special_closes(self, s, e)) :
            normalize(i) \notin Range(date_range(self, s, e))

\* C7: a construction with an in-range special open or close instant whose
\* normalized date is no business day fails: no instance comes to exist, and
\* when get_calendar made the construction nothing is registered.
C7_MisalignedFailsUnpublished ==
    [][(/\ Calls("construct") \/ (Calls("get_calendar")
                                     /\ ~Registered(call'.name)
                                     /\ is_lazy_calendar(call'.name))
        /\ Misaligned(call'.name, call'.start, call'.end)) =>
            /\ call'.err = "ValueError"
            /\ call'.ret = 0
            /\ heap' = heap
            /\ static_calendars' = static_calendars]_vars

\* get_calendar failed on a special instant of a weekend, with calendars
\* registered and instances alive.
C7_Witness ==
    /\ call.op = "get_calendar"
    /\ call.err = "ValueError"
    /\ Misaligned(call.name, call.start, call.end)
    /\ call.name \notin DOMAIN static_calendars
    /\ static_calendars # EmptyRegistry

\* ------------------------------------------------------------- properties
\* of the concurrent callers (SpecCallers)

Computing == {t \in Callers : pc[t] = "compute"}

\* The callers that returned a value.
Returned == {t \in Callers : pc[t] = "done" /\ got[t].err = None}

====
